---------------------------- MODULE Spec2Model ----------------------------
(***************************************************************************)
(* Model of the expression calculator in src/src/exprtree.rs.              *)
(*                                                                         *)
(* main (src/src/main.rs:19-26) reads one expression, calls                *)
(* ExprTree::build, which is parse_tokens, then build_rpn, then from_rpn,  *)
(* and prints tree.eval().  Each of the four is a pure function of the     *)
(* previous one's result; each is an operator below, and an action applies *)
(* it.  A Rust `fail!` (task failure) ends the run in pc = "failed" with   *)
(* its message.                                                            *)
(*                                                                         *)
(* Strings are sequences of one-character strings.  Option<T> is a         *)
(* sequence of length 0 (None) or 1 (Some).  A Vec used as a stack has its *)
(* top at the end of the sequence.                                         *)
(***************************************************************************)
EXTENDS Integers, Sequences, FiniteSets, TLC

VARIABLES
    expression,  \* the text handed to ExprTree::build
    ast,         \* ghost: the arithmetic term the text was rendered from, if any
    pc,          \* the next step of main: parse, shunt, treeify, eval, done, failed
    tokens,      \* result of parse_tokens
    rpn,         \* Option: result of build_rpn
    stack,       \* from_rpn's operand stack after its last token
    tree,        \* Option: root of the ExprTree returned by from_rpn
    result,      \* Option: the number returned by eval
    failure      \* the message of the fail! that ended the run, or ""

vars == <<expression, ast, pc, tokens, rpn, stack, tree, result, failure>>

None == <<>>
Some(x) == <<x>>

Front(s) == SubSeq(s, 1, Len(s) - 1)
Last(s) == s[Len(s)]

----------------------------------------------------------------------------
(* Bounds of the model *)

\* longest expression of the unrestricted specification
MaxLen == 4
\* longest expression of the parenthesis specification
MaxParenLen == 5
\* most binary operators in a generated arithmetic term
MaxOps == 2
\* largest numerator or denominator the value domain tracks exactly
MaxMag == 30000

----------------------------------------------------------------------------
(* Characters and token types *)

DigitChars == <<"0", "1", "2", "3", "4", "5", "6", "7", "8", "9">>

NumericChars == {DigitChars[i] : i \in 1..10} \cup {"."}

AlphabeticalChars ==
    {"a", "b", "c", "d", "e", "f", "g", "h", "i", "j", "k", "l", "m",
     "n", "o", "p", "q", "r", "s", "t", "u", "v", "w", "x", "y", "z"}

OperatorChars == {"+", "-", "*", "/", "%", "^"}

of_char(c) ==
    IF c \in NumericChars THEN "Numeric"
    ELSE IF c \in AlphabeticalChars THEN "Alphabetical"
    ELSE IF c \in OperatorChars THEN "Operator"
    ELSE IF c = "(" THEN "LeftParen"
    ELSE IF c = ")" THEN "RightParen"
    ELSE "Invalid"

of_alphabeticals(s) ==
    IF s = <<"p", "i">> THEN "Numeric" ELSE "Functional"

operator_precedence(operator) ==
    IF operator = <<"^">> THEN 4
    ELSE IF operator = <<"*">> \/ operator = <<"/">> THEN 3
    ELSE IF operator = <<"+">> \/ operator = <<"-">> THEN 2
    ELSE 1

\* operator_assoc without its `^` arm.
operator_assoc_all_left(operator) == "LeftAssoc"

operator_assoc(operator) ==
    IF operator = <<"^">> THEN "RightAssoc" ELSE "LeftAssoc"

Token(ttype, tstr, tprec) == [type |-> ttype, str |-> tstr, prec |-> tprec]

----------------------------------------------------------------------------
(* parse_tokens *)

\* The inner while loops: the first index at or after j whose character is
\* not of type ttype (Len + 1 when the run reaches the end).
RECURSIVE RunEnd(_, _, _)
RunEnd(expr, j, ttype) ==
    IF j <= Len(expr) /\ of_char(expr[j]) = ttype
    THEN RunEnd(expr, j + 1, ttype)
    ELSE j

RECURSIVE parse_from(_, _)
parse_from(expr, i) ==
    IF i > Len(expr) THEN <<>>
    ELSE
        LET c == expr[i]
            token_type == of_char(c)
        IN  CASE token_type = "Operator" ->
                    <<Token("Operator", <<c>>, operator_precedence(<<c>>))>>
                        \o parse_from(expr, i + 1)
              [] token_type = "Numeric" ->
                    LET j == RunEnd(expr, i + 1, "Numeric")
                    IN  <<Token("Numeric", SubSeq(expr, i, j - 1), 0)>>
                            \o parse_from(expr, j)
              [] token_type = "Alphabetical" ->
                    LET j == RunEnd(expr, i + 1, "Alphabetical")
                        alpha_str == SubSeq(expr, i, j - 1)
                    IN  <<Token(of_alphabeticals(alpha_str), alpha_str, 0)>>
                            \o parse_from(expr, j)
              [] token_type = "LeftParen" ->
                    <<Token("LeftParen", <<"(">>, 0)>> \o parse_from(expr, i + 1)
              [] token_type = "RightParen" ->
                    <<Token("RightParen", <<")">>, 0)>> \o parse_from(expr, i + 1)
              [] OTHER -> parse_from(expr, i + 1)

parse_tokens(expr) == parse_from(expr, 1)

----------------------------------------------------------------------------
(* build_rpn: the shunting yard.  A conversion state is the output queue   *)
(* and the input stack, or the failure.                                    *)

Yard(out, stk) == [failed |-> FALSE, output_queue |-> out, input_stack |-> stk]
YardFailed == [failed |-> TRUE, output_queue |-> <<>>, input_stack |-> <<>>]

\* The condition under which the Operator arm moves the stack top o2 to the
\* output before pushing a token of precedence tprec.
displaces(o2, tprec) ==
    /\ o2.type = "Operator"
    /\ \/ operator_assoc(o2.str) = "LeftAssoc" /\ tprec <= o2.prec
       \/ tprec < o2.prec

\* The Operator arm's loop.
RECURSIVE pop_operators(_, _, _)
pop_operators(out, stk, tprec) ==
    IF stk = <<>> THEN Yard(out, stk)
    ELSE IF displaces(Last(stk), tprec)
         THEN pop_operators(Append(out, Last(stk)), Front(stk), tprec)
         ELSE Yard(out, stk)

\* The RightParen arm's loop without its failure: an empty stack ends it.
RECURSIVE pop_to_left_paren_lenient(_, _)
pop_to_left_paren_lenient(out, stk) ==
    IF stk = <<>> THEN Yard(out, stk)
    ELSE IF Last(stk).type # "LeftParen"
         THEN pop_to_left_paren_lenient(Append(out, Last(stk)), Front(stk))
         ELSE Yard(out, Front(stk))

\* The RightParen arm's loop.
RECURSIVE pop_to_left_paren(_, _)
pop_to_left_paren(out, stk) ==
    IF stk = <<>> THEN YardFailed
    ELSE IF Last(stk).type # "LeftParen"
         THEN pop_to_left_paren(Append(out, Last(stk)), Front(stk))
         ELSE Yard(out, Front(stk))

\* One iteration of the scan.
rpn_step(y, token) ==
    CASE token.type = "Numeric" ->
            Yard(Append(y.output_queue, token), y.input_stack)
      [] token.type = "Functional" ->
            Yard(y.output_queue, Append(y.input_stack, token))
      [] token.type = "Operator" ->
            LET p == pop_operators(y.output_queue, y.input_stack, token.prec)
            IN  Yard(p.output_queue, Append(p.input_stack, token))
      [] token.type = "LeftParen" ->
            Yard(y.output_queue, Append(y.input_stack, token))
      [] token.type = "RightParen" ->
            pop_to_left_paren(y.output_queue, y.input_stack)
      [] OTHER -> y

RECURSIVE rpn_scan(_, _, _)
rpn_scan(y, toks, i) ==
    IF y.failed \/ i > Len(toks) THEN y
    ELSE rpn_scan(rpn_step(y, toks[i]), toks, i + 1)

\* The final loop.
RECURSIVE rpn_drain(_, _)
rpn_drain(out, stk) ==
    IF stk = <<>> THEN Yard(out, stk)
    ELSE IF Last(stk).type \in {"LeftParen", "RightParen"} THEN YardFailed
         ELSE rpn_drain(Append(out, Last(stk)), Front(stk))

\* None when the conversion fails with "Parenthesis mismatch!".
build_rpn(toks) ==
    LET y == rpn_scan(Yard(<<>>, <<>>), toks, 1)
    IN  IF y.failed THEN None
        ELSE LET d == rpn_drain(y.output_queue, y.input_stack)
             IN  IF d.failed THEN None ELSE Some(d.output_queue)

----------------------------------------------------------------------------
(* f64 values.  A value is tracked exactly as a signed rational s * n / d  *)
(* in lowest terms (so the two zeros are distinct), or is an infinity, or  *)
(* NaN, or one of the two named constants, or "untracked": a float the     *)
(* model does not compute (a transcendental result, a power with a         *)
(* non-integer exponent, a magnitude beyond MaxMag).  Rounding is not      *)
(* modelled: the claims checked on values involve small integers, or       *)
(* compare two computations made of the same operations.                   *)

Val(k, s, n, d) == [k |-> k, s |-> s, n |-> n, d |-> d]
Untracked == Val("untracked", 1, 0, 0)
NaN == Val("nan", 1, 0, 0)
Inf(s) == Val("inf", s, 1, 0)
Zero(s) == Val("fin", s, 0, 1)
Pi == Val("pi", 1, 0, 0)
E == Val("e", 1, 0, 0)

RECURSIVE GCD(_, _)
GCD(a, b) == IF b = 0 THEN a ELSE GCD(b, a % b)

\* s * n / d in lowest terms; n > 0, d > 0.
Fin(s, n, d) ==
    LET g == GCD(n, d)
    IN  IF n \div g > MaxMag \/ d \div g > MaxMag THEN Untracked
        ELSE Val("fin", s, n \div g, d \div g)

IntVal(i) == IF i < 0 THEN Val("fin", -1, -i, 1) ELSE Val("fin", 1, i, 1)

IsZero(v) == v.k = "fin" /\ v.n = 0
Exact(v) == v.k \in {"fin", "inf", "nan"}

Neg(v) == IF v.k \in {"fin", "inf"} THEN [v EXCEPT !.s = -v.s]
          ELSE IF v.k = "nan" THEN NaN ELSE Untracked

Add(a, b) ==
    IF ~Exact(a) \/ ~Exact(b) THEN Untracked
    ELSE IF a.k = "nan" \/ b.k = "nan" THEN NaN
    ELSE IF a.k = "inf" /\ b.k = "inf" THEN (IF a.s = b.s THEN a ELSE NaN)
    ELSE IF a.k = "inf" THEN a
    ELSE IF b.k = "inf" THEN b
    ELSE LET num == a.s * a.n * b.d + b.s * b.n * a.d
         IN  IF num = 0
             THEN (IF IsZero(a) /\ IsZero(b) /\ a.s = -1 /\ b.s = -1
                   THEN Zero(-1) ELSE Zero(1))
             ELSE IF num < 0 THEN Fin(-1, -num, a.d * b.d)
             ELSE Fin(1, num, a.d * b.d)

Sub(a, b) == Add(a, Neg(b))

Mul(a, b) ==
    IF ~Exact(a) \/ ~Exact(b) THEN Untracked
    ELSE IF a.k = "nan" \/ b.k = "nan" THEN NaN
    ELSE IF a.k = "inf" \/ b.k = "inf"
         THEN (IF IsZero(a) \/ IsZero(b) THEN NaN ELSE Inf(a.s * b.s))
    ELSE IF IsZero(a) \/ IsZero(b) THEN Zero(a.s * b.s)
    ELSE Fin(a.s * b.s, a.n * b.n, a.d * b.d)

Div(a, b) ==
    IF ~Exact(a) \/ ~Exact(b) THEN Untracked
    ELSE IF a.k = "nan" \/ b.k = "nan" THEN NaN
    ELSE IF a.k = "inf" THEN (IF b.k = "inf" THEN NaN ELSE Inf(a.s * b.s))
    ELSE IF b.k = "inf" THEN Zero(a.s * b.s)
    ELSE IF IsZero(b) THEN (IF IsZero(a) THEN NaN ELSE Inf(a.s * b.s))
    ELSE IF IsZero(a) THEN Zero(a.s * b.s)
    ELSE Fin(a.s * b.s, a.n * b.d, a.d * b.n)

RECURSIVE PowNat(_, _)
PowNat(a, n) == IF n = 0 THEN IntVal(1) ELSE Mul(a, PowNat(a, n - 1))

\* powf, computed for a finite base and an integer exponent.
Pow(a, b) ==
    IF b.k = "fin" /\ b.n = 0 THEN IntVal(1)
    ELSE IF a.k # "fin" \/ b.k # "fin" \/ b.d # 1 THEN
        (IF a.k = "nan" \/ b.k = "nan" THEN NaN ELSE Untracked)
    ELSE IF a.n = a.d THEN (IF a.s = 1 \/ b.n % 2 = 0 THEN IntVal(1) ELSE IntVal(-1))
    ELSE IF IsZero(a) THEN
        LET s == IF b.n % 2 = 1 THEN a.s ELSE 1
        IN  IF b.s = 1 THEN Zero(s) ELSE Inf(s)
    ELSE IF b.n > 31 THEN Untracked
    ELSE IF b.s = 1 THEN PowNat(a, b.n)
    ELSE Div(IntVal(1), PowNat(a, b.n))

Signum(v) ==
    IF v.k = "nan" THEN NaN
    ELSE IF v.k \in {"fin", "inf"} THEN IntVal(v.s)
    ELSE IF v.k \in {"pi", "e"} THEN IntVal(1)
    ELSE Untracked

\* ln, log2 and log10: exact at 1, at the zeros, at +infinity and NaN, and
\* NaN below zero.
Log(v) ==
    IF v.k = "nan" THEN NaN
    ELSE IF v.k = "inf" THEN (IF v.s = 1 THEN v ELSE NaN)
    ELSE IF v.k # "fin" THEN Untracked
    ELSE IF v.n = 0 THEN Inf(-1)
    ELSE IF v.s = -1 THEN NaN
    ELSE IF v.n = 1 /\ v.d = 1 THEN Zero(1)
    ELSE Untracked

----------------------------------------------------------------------------
(* from_str::<f64> on a token's text.  The texts that reach it are runs of *)
(* digits and dots, runs of lowercase letters, and single operator         *)
(* characters.  A run of digits with at most one dot is a number ("5." is  *)
(* 5, ".5" is 0.5, and the standard library of the `fail!` era documents a *)
(* lone "." as 0), "inf" is the infinity, everything else is None; a text  *)
(* with two dots, such as "1.2.3" or "..", is never a number.              *)

DigitValue(c) == CHOOSE v \in 0..9 : DigitChars[v + 1] = c

CountOf(text, c) == Cardinality({i \in 1..Len(text) : text[i] = c})

RECURSIVE DecimalValue(_, _, _, _, _)
DecimalValue(text, i, n, d, frac) ==
    IF i > Len(text) THEN (IF n = 0 THEN Zero(1) ELSE Fin(1, n, d))
    ELSE IF text[i] = "." THEN DecimalValue(text, i + 1, n, d, TRUE)
    ELSE LET n2 == n * 10 + DigitValue(text[i])
             d2 == IF frac THEN d * 10 ELSE d
         IN  IF n2 > MaxMag \/ d2 > MaxMag THEN Untracked
             ELSE DecimalValue(text, i + 1, n2, d2, frac)

from_str_f64(text) ==
    IF text = <<"i", "n", "f">> THEN Some(Inf(1))
    ELSE IF /\ \A i \in 1..Len(text) : text[i] \in NumericChars
            /\ CountOf(text, ".") <= 1
            /\ Len(text) >= 1
         THEN Some(DecimalValue(text, 1, 0, 1, FALSE))
         ELSE None

constant_value(constant) ==
    IF constant = <<"p", "i">> THEN Some(Pi)
    ELSE IF constant = <<"e">> THEN Some(E)
    ELSE None

----------------------------------------------------------------------------
(* ExprNode and from_rpn *)

ExprNode_new(token, left, right) ==
    [token |-> token,
     value |-> IF from_str_f64(token) # None THEN from_str_f64(token)
               ELSE constant_value(token),
     left  |-> left,
     right |-> right]

\* Vec::pop: the popped Option and the rest.
pop(stk) == IF stk = <<>> THEN [item |-> None, rest |-> <<>>]
            ELSE [item |-> Some(Last(stk)), rest |-> Front(stk)]

\* The Operator arm with its pops exchanged: the first pop is the left child.
operator_arm_swapped(stk, tstr) ==
    LET r == pop(stk)
        l == pop(r.rest)
    IN  Append(l.rest, ExprNode_new(tstr, r.item, l.item))

\* The Operator arm of from_rpn.
operator_arm(stk, tstr) ==
    LET r == pop(stk)
        l == pop(r.rest)
    IN  Append(l.rest, ExprNode_new(tstr, l.item, r.item))

\* The Functional arm of from_rpn.
functional_arm(stk, tstr) ==
    LET r == pop(stk)
    IN  Append(r.rest, ExprNode_new(tstr, None, r.item))

tree_step(stk, token) ==
    CASE token.type = "Numeric" -> Append(stk, ExprNode_new(token.str, None, None))
      [] token.type = "Operator" -> operator_arm(stk, token.str)
      [] token.type = "Functional" -> functional_arm(stk, token.str)
      [] OTHER -> stk

\* The operand stack after the for loop.
RECURSIVE tree_scan(_, _, _)
tree_scan(stk, postfix, i) ==
    IF i > Len(postfix) THEN stk
    ELSE tree_scan(tree_step(stk, postfix[i]), postfix, i + 1)

\* stack.get(0): the bottom of the stack is the root; get fails on an empty Vec.
from_rpn(postfix) ==
    LET stk == tree_scan(<<>>, postfix, 1)
    IN  IF stk = <<>> THEN None ELSE Some(stk[1])

----------------------------------------------------------------------------
(* eval.  An evaluation returns a value or fails with a message.           *)

Ok(v) == [ok |-> TRUE, v |-> v, err |-> ""]
Err(m) == [ok |-> FALSE, v |-> Untracked, err |-> m]

BinarySymbols == {<<"+">>, <<"-">>, <<"*">>, <<"/">>, <<"^">>}

of_operator(operator) ==
    LET c == IF operator = <<>> THEN " " ELSE operator[1]
    IN  IF of_char(c) = "Alphabetical" THEN "Unary"
        ELSE IF operator \in BinarySymbols THEN "Binary"
        ELSE "NoOp"

LogNames == {<<"l", "n">>, <<"l", "g">>, <<"l", "o", "g">>}
TrigNames == {<<"s", "i", "n">>, <<"c", "o", "s">>, <<"t", "a", "n">>,
              <<"c", "s", "c">>, <<"s", "e", "c">>, <<"c", "o", "t">>}

eval_unary(operator, value) ==
    IF operator = <<"-">> \/ operator = <<"n", "e", "g">> THEN Ok(Neg(value))
    ELSE IF operator \in LogNames THEN Ok(Log(value))
    ELSE IF operator \in TrigNames THEN Ok(Untracked)
    ELSE IF operator = <<"s", "g", "n">> THEN Ok(Signum(value))
    ELSE Err("Invalid unary operator")

eval_binary(operator, lhs, rhs) ==
    IF operator = <<"+">> THEN Add(lhs, rhs)
    ELSE IF operator = <<"-">> THEN Sub(lhs, rhs)
    ELSE IF operator = <<"*">> THEN Mul(lhs, rhs)
    ELSE IF operator = <<"/">> THEN Div(lhs, rhs)
    ELSE IF operator = <<"^">> THEN Pow(lhs, rhs)
    ELSE Zero(1)

RECURSIVE eval_node(_)
eval_node(node) ==
    IF node.value # None THEN Ok(node.value[1])
    ELSE IF node.right = None THEN Err("No available value for operator.")
    ELSE
        LET ot == of_operator(node.token)
            r == eval_node(node.right[1])
        IN  IF ot = "Unary" \/ (ot = "Binary" /\ node.left = None)
            THEN (IF r.ok THEN eval_unary(node.token, r.v) ELSE r)
            ELSE IF ot = "Binary"
            THEN LET l == eval_node(node.left[1])
                 IN  IF ~l.ok THEN l
                     ELSE IF ~r.ok THEN r
                     ELSE Ok(eval_binary(node.token, l.v, r.v))
            ELSE Ok(Zero(1))

eval(root) == IF root = None THEN Ok(Zero(1)) ELSE eval_node(root[1])

----------------------------------------------------------------------------
(* Inputs *)

SeqsUpTo(S, n) == UNION {[1..k -> S] : k \in 0..n}

\* Characters of the unrestricted specification: two digits, the dot, the
\* letters of both constant names, operators of both kinds of `-` use and
\* the unknown `%`, the parentheses and a character the scanner skips.
Alphabet == {"2", "3", ".", "e", "p", "i", "+", "-", "%", "(", ")", " "}

\* Characters of the parenthesis specification: an operand, a left- and a
\* right-associative operator, a function name and the parentheses.
ParenAlphabet == {"2", "+", "^", "n", "(", ")"}

\* Operands and operators of the precedence specification.
Operands == {"2", "3"}
PrecOperators == {"+", "-", "*", "/", "^"}
PrecInputs ==
    {<<a, op1, b, op2, c>> : a \in Operands, op1 \in PrecOperators,
         b \in Operands, op2 \in PrecOperators, c \in Operands}

\* Inputs of the function specification: F ( X ) op Y.
FuncNames == {<<"l", "n">>, <<"s", "g", "n">>, <<"n", "e", "g">>}
FuncOperands == {"1", "2", "3"}
FuncInputs ==
    {<<F, x, op, y>> : F \in FuncNames, x \in FuncOperands,
         op \in PrecOperators, y \in FuncOperands}
FuncText(in) == in[1] \o <<"(", in[2], ")", in[3], in[4]>>

\* Generated arithmetic terms: integer literals under + - * /.
Literals == {0, 3, 12}
ArithOperators == {"+", "-", "*", "/"}
Leaf(n) == [op |-> "", lit |-> n, kids |-> <<>>]
Bin(op, l, r) == [op |-> op, lit |-> 0, kids |-> <<l, r>>]

RECURSIVE TermsWith(_)
TermsWith(k) ==
    IF k = 0 THEN {Leaf(n) : n \in Literals}
    ELSE UNION {{Bin(op, l, r) : op \in ArithOperators,
                     l \in TermsWith(i), r \in TermsWith(k - 1 - i)}
                : i \in 0..(k - 1)}

Terms == UNION {TermsWith(k) : k \in 0..MaxOps}

RECURSIVE Decimal(_)
Decimal(n) ==
    IF n < 10 THEN <<DigitChars[n + 1]>>
    ELSE Decimal(n \div 10) \o <<DigitChars[(n % 10) + 1]>>

\* The term as text, every operation in its own parentheses.
RECURSIVE Render(_)
Render(t) ==
    IF t.kids = <<>> THEN Decimal(t.lit)
    ELSE <<"(">> \o Render(t.kids[1]) \o <<t.op>> \o Render(t.kids[2]) \o <<")">>

\* The reference evaluator: the term's arithmetic, done directly.
RECURSIVE RefEval(_)
RefEval(t) ==
    IF t.kids = <<>> THEN IntVal(t.lit)
    ELSE LET l == RefEval(t.kids[1])
             r == RefEval(t.kids[2])
         IN  CASE t.op = "+" -> Add(l, r)
               [] t.op = "-" -> Sub(l, r)
               [] t.op = "*" -> Mul(l, r)
               [] t.op = "/" -> Div(l, r)

----------------------------------------------------------------------------
(* The state machine *)

Start ==
    /\ pc = "parse"
    /\ tokens = <<>>
    /\ rpn = None
    /\ stack = <<>>
    /\ tree = None
    /\ result = None
    /\ failure = ""

Init ==
    /\ expression \in SeqsUpTo(Alphabet, MaxLen)
    /\ ast = None
    /\ Start

InitParen ==
    /\ expression \in SeqsUpTo(ParenAlphabet, MaxParenLen)
    /\ ast = None
    /\ Start

InitPrec ==
    /\ expression \in PrecInputs
    /\ ast = None
    /\ Start

InitFunc ==
    /\ expression \in {FuncText(in) : in \in FuncInputs}
    /\ ast = None
    /\ Start

InitArith ==
    /\ \E t \in Terms : ast = Some(t) /\ expression = Render(t)
    /\ Start

ParseTokens ==
    /\ pc = "parse"
    /\ tokens' = parse_tokens(expression)
    /\ pc' = "shunt"
    /\ UNCHANGED <<expression, ast, rpn, stack, tree, result, failure>>

BuildRpn ==
    /\ pc = "shunt"
    /\ rpn' = build_rpn(tokens)
    /\ IF rpn' = None
       THEN pc' = "failed" /\ failure' = "Parenthesis mismatch!"
       ELSE pc' = "treeify" /\ failure' = failure
    /\ UNCHANGED <<expression, ast, tokens, stack, tree, result>>

FromRpn ==
    /\ pc = "treeify"
    /\ stack' = tree_scan(<<>>, rpn[1], 1)
    /\ tree' = from_rpn(rpn[1])
    /\ IF tree' = None
       THEN pc' = "failed" /\ failure' = "index out of bounds"
       ELSE pc' = "eval" /\ failure' = failure
    /\ UNCHANGED <<expression, ast, tokens, rpn, result>>

Eval ==
    /\ pc = "eval"
    /\ LET r == eval(tree)
       IN  IF r.ok
           THEN result' = Some(r.v) /\ pc' = "done" /\ failure' = failure
           ELSE result' = None /\ pc' = "failed" /\ failure' = r.err
    /\ UNCHANGED <<expression, ast, tokens, rpn, stack, tree>>

Next == ParseTokens \/ BuildRpn \/ FromRpn \/ Eval

Spec == Init /\ [][Next]_vars
SpecParen == InitParen /\ [][Next]_vars
SpecPrec == InitPrec /\ [][Next]_vars
SpecFunc == InitFunc /\ [][Next]_vars
SpecArith == InitArith /\ [][Next]_vars

Terminal == pc \in {"done", "failed"}

----------------------------------------------------------------------------
(* Properties *)

Texts(toks) == [i \in 1..Len(toks) |-> toks[i].str]

\* The nesting depth after the tokens from i on, starting at depth; -1 once
\* a `)` arrives at depth 0.
RECURSIVE ParenDepth(_, _, _)
ParenDepth(toks, i, depth) ==
    IF i > Len(toks) THEN depth
    ELSE IF toks[i].type = "LeftParen" THEN ParenDepth(toks, i + 1, depth + 1)
    ELSE IF toks[i].type = "RightParen"
         THEN (IF depth = 0 THEN -1 ELSE ParenDepth(toks, i + 1, depth - 1))
    ELSE ParenDepth(toks, i + 1, depth)

Unbalanced(toks) == ParenDepth(toks, 1, 0) # 0

\* C1: once build_rpn has run on a token sequence whose parentheses are
\* unbalanced, the run has failed with the parenthesis mismatch, and there
\* is no postfix sequence, no tree and no number.
ParenMismatchFails ==
    (pc \notin {"parse", "shunt"} /\ Unbalanced(tokens))
        => /\ pc = "failed"
           /\ failure = "Parenthesis mismatch!"
           /\ rpn = None
           /\ tree = None
           /\ result = None

\* C1 witness: "n(2^2" has been converted and the conversion failed.
ParenMismatchSeen ==
    /\ expression = <<"n", "(", "2", "^", "2">>
    /\ Unbalanced(tokens)
    /\ pc = "failed"
    /\ failure = "Parenthesis mismatch!"

\* C2: a `-` with no left operand negates the operand after it, and a `-`
\* between operands subtracts: "-a" evaluates to -a and "a--b" to a + b.
MinusDisambiguated ==
    Terminal =>
        \A a, b \in {"2", "3"} :
            /\ expression = <<"-", a>>
                => pc = "done" /\ result = Some(IntVal(0 - DigitValue(a)))
            /\ expression = <<a, "-", "-", b>>
                => pc = "done"
                   /\ result = Some(IntVal(DigitValue(a) + DigitValue(b)))

\* The claimed precedence and associativity tables.
ClaimedPrec(op) == IF op = "^" THEN 4 ELSE IF op \in {"*", "/"} THEN 3 ELSE 2
ClaimedLeftAssoc(op) == op # "^"

\* C3: the postfix of `a op1 b op2 c` is `a b op1 c op2` when op1 binds
\* tighter than op2, or as tightly and is left-associative, and
\* `a b c op2 op1` otherwise.
PrecedenceGrouping ==
    pc \notin {"parse", "shunt"} =>
        \A in \in PrecInputs :
            expression = in =>
                /\ rpn # None
                /\ Texts(rpn[1]) =
                     IF \/ ClaimedPrec(in[2]) > ClaimedPrec(in[4])
                        \/ /\ ClaimedPrec(in[2]) = ClaimedPrec(in[4])
                           /\ ClaimedLeftAssoc(in[2])
                     THEN << <<in[1]>>, <<in[3]>>, <<in[2]>>, <<in[5]>>, <<in[4]>> >>
                     ELSE << <<in[1]>>, <<in[3]>>, <<in[5]>>, <<in[4]>>, <<in[2]>> >>

\* C3 witness: "2^3^2" was converted to `2 3 2 ^ ^` and evaluated to 512.
RightAssocSeen ==
    /\ expression = <<"2", "^", "3", "^", "2">>
    /\ pc = "done"
    /\ Texts(rpn[1]) = << <<"2">>, <<"3">>, <<"2">>, <<"^">>, <<"^">> >>
    /\ result = Some(IntVal(512))

KnownSymbols ==
    BinarySymbols \cup LogNames \cup TrigNames
        \cup {<<"n", "e", "g">>, <<"s", "g", "n">>}

\* C4: a run whose tree has at its root an operation on two operands with
\* a symbol that is no known operator or function fails and returns no
\* number.
UnknownOperatorFails ==
    (/\ Terminal
     /\ tree # None
     /\ tree[1].value = None
     /\ tree[1].left # None
     /\ tree[1].right # None
     /\ tree[1].token \notin KnownSymbols)
        => pc = "failed" /\ result = None

ConstantNames == {<<"p", "i">>, <<"e">>}

\* C5: every token made of letters is Numeric when its text is a constant
\* name, `pi` or `e`, and Functional otherwise.
ConstantsAreNumeric ==
    pc # "parse" =>
        \A i \in 1..Len(tokens) :
            tokens[i].str[1] \in AlphabeticalChars =>
                tokens[i].type = IF tokens[i].str \in ConstantNames
                                 THEN "Numeric" ELSE "Functional"

\* C6: the run on a generated term's text ends with the number the
\* reference evaluator gives for the term, and that number is tracked.
MatchesReference ==
    Terminal =>
        /\ pc = "done"
        /\ result = Some(RefEval(ast[1]))
        /\ Exact(result[1])

\* C6 witness: "(3-(12/3))" has been evaluated to -1.
ReferenceSeen ==
    /\ ast = Some(Bin("-", Leaf(3), Bin("/", Leaf(12), Leaf(3))))
    /\ expression = <<"(", "3", "-", "(", "1", "2", "/", "3", ")", ")">>
    /\ pc = "done"
    /\ result = Some(IntVal(-1))

\* Whether some Operator token of the postfix sequence is processed with
\* fewer than two nodes on the operand stack, or some Functional token
\* with none; depth is the number of nodes before token i.
RECURSIVE Underflows(_, _, _)
Underflows(postfix, i, depth) ==
    IF i > Len(postfix) THEN FALSE
    ELSE IF postfix[i].type = "Numeric" THEN Underflows(postfix, i + 1, depth + 1)
    ELSE IF postfix[i].type = "Operator"
         THEN depth < 2 \/ Underflows(postfix, i + 1, depth - 1)
    ELSE IF postfix[i].type = "Functional"
         THEN depth < 1 \/ Underflows(postfix, i + 1, depth)
    ELSE Underflows(postfix, i + 1, depth)

\* C7: once from_rpn has run on a postfix sequence that underflows the
\* operand stack, the run has failed and there is no tree.
UnderflowFails ==
    (/\ pc \in {"eval", "done", "failed"}
     /\ rpn # None
     /\ Underflows(rpn[1], 1, 0))
        => pc = "failed" /\ tree = None

\* C8: the postfix of `F ( X ) op Y` is `X F Y op`.
FunctionBindsArgument ==
    pc \notin {"parse", "shunt"} =>
        \A in \in FuncInputs :
            expression = FuncText(in) =>
                /\ rpn # None
                /\ Texts(rpn[1]) = << <<in[2]>>, in[1], <<in[4]>>, <<in[3]>> >>

\* C9: whenever from_rpn has returned a tree, its operand stack ended with
\* exactly one node, the root.
SingleRoot ==
    tree # None => Len(stack) = 1 /\ tree = Some(stack[1])

RECURSIVE WellFormed(_)
WellFormed(node) ==
    /\ node.value # None => node.left = None /\ node.right = None
    /\ node.value = None => node.right # None
    /\ node.left # None => WellFormed(node.left[1])
    /\ node.right # None => WellFormed(node.right[1])

\* C10: every node of a returned tree with a value has no children, and
\* every node without a value has a right child.
NodeInvariant ==
    tree # None => WellFormed(tree[1])

=============================================================================
